---- MODULE Spec2Model ----
(***************************************************************************)
(* Bootstrap of DxvkInstance (src/dxvk/dxvk_instance.cpp): the constructor *)
(* as a sequence of steps, the driver as a nondeterministic environment,   *)
(* and the adapter queries that are available once construction succeeded. *)
(***************************************************************************)
EXTENDS Integers, Sequences, FiniteSets, TLC

VARIABLES
  pc,                  \* position of the constructor
  m_extProviders,      \* registered providers, in registration order
  envPerfEvents,       \* env::getEnvVar("DXVK_PERF_EVENTS") == "1"
  enableDebugUtils,    \* m_options.enableDebugUtils
  m_vkl,               \* library binding: "none", "valid" or "invalid"
  extensionsAvailable, \* names the driver reported available
  insExtensionList,    \* requested extension slots, in order
  extensionsEnabled,   \* names handed to vkCreateInstance
  m_extensions,        \* the output record: slot -> enabled
  m_vki,               \* driver connection: "none" or "instance"
  fillStatus,          \* status of the fill call ("none": not called)
  physicalDevices,     \* property snapshots of the enumerated devices
  filterFlags,         \* DxvkDeviceFilterFlags computed over the population
  m_adapters,          \* the adapter collection
  calls,               \* every call made so far, in order
  logWarn,             \* Logger::warn lines emitted so far
  error,               \* message of the DxvkError thrown, or NoError
  lastQuery,           \* the last adapter query and its result
  instance,            \* which DxvkInstance of the process this is: 1 or 2
  earlierAdapters,     \* the adapter collection of the instance built before
  providerState        \* the provider singletons, shared by all instances

vars == << pc, m_extProviders, envPerfEvents, enableDebugUtils, m_vkl,
           extensionsAvailable, insExtensionList, extensionsEnabled,
           m_extensions, m_vki, fillStatus, physicalDevices,
           filterFlags, m_adapters, calls, logWarn, error, lastQuery,
           instance, earlierAdapters, providerState >>

-----------------------------------------------------------------------------
(* Bounds *)

MaxDevices == 4

\* A second instance is built only after a first one that enumerated at
\* most this many devices.
MaxEarlierDevices == 1

-----------------------------------------------------------------------------
(* Names *)

NoError == "none"

khrGetSurfaceCapabilities2 == "VK_KHR_get_surface_capabilities2"
khrSurface == "VK_KHR_surface"
extDebugUtils == "VK_EXT_debug_utils"
platformSurface == "VK_KHR_win32_surface"

\* The slots of DxvkInstanceExtensions that createInstance touches.
InstanceExtensionSlots == { khrGetSurfaceCapabilities2, khrSurface, extDebugUtils }

ExtensionNames == InstanceExtensionSlots \cup { platformSurface }

\* A default-constructed DxvkInstanceExtensions: nothing enabled.
DefaultInstanceExtensions == [ s \in InstanceExtensionSlots |-> FALSE ]

\* Which slots negotiation cannot do without.
ExtMode(slot) ==
  IF slot = extDebugUtils THEN "Optional" ELSE "Required"

DebugUtilsWarning ==
  "DXVK: Debug Utils are enabled, perf events are ON. May affect performance!"

NoAdaptersWarning ==
  "DXVK: No adapters found. Please check your device filter settings and Vulkan setup."

\* lines 22-26: the providers registered by a _WIN32 build (other builds
\* register the first one only).
RegisteredProviders ==
  << "DxvkPlatformExts", "VrInstance", "DxvkXrProvider" >>

\* provider->getInstanceExtensions()
GetInstanceExtensions(provider) ==
  IF provider = "DxvkPlatformExts" THEN { platformSurface } ELSE {}

\* provider->getDeviceExtensions(i)
GetDeviceExtensions(provider, i) ==
  { [ provider |-> provider, adapterIndex |-> i ] }

-----------------------------------------------------------------------------
(* Physical devices *)

DeviceTypeNames == { "OTHER", "INTEGRATED_GPU", "DISCRETE_GPU", "VIRTUAL_GPU", "CPU" }

\* Property snapshots the driver may report.
DevicePool ==
  { [ deviceType |-> "DISCRETE_GPU",   vendorID |-> 4318,  deviceID |-> 1,
      deviceLUID |-> 1, deviceLUIDValid |-> TRUE ],
    [ deviceType |-> "INTEGRATED_GPU", vendorID |-> 32902, deviceID |-> 2,
      deviceLUID |-> 2, deviceLUIDValid |-> TRUE ],
    [ deviceType |-> "VIRTUAL_GPU",    vendorID |-> 4318,  deviceID |-> 1,
      deviceLUID |-> 1, deviceLUIDValid |-> FALSE ],
    [ deviceType |-> "CPU",            vendorID |-> 65541, deviceID |-> 0,
      deviceLUID |-> 3, deviceLUIDValid |-> FALSE ],
    [ deviceType |-> "OTHER",          vendorID |-> 32902, deviceID |-> 2,
      deviceLUID |-> 2, deviceLUIDValid |-> TRUE ] }

Populations == UNION { [ 1..n -> DevicePool ] : n \in 0..MaxDevices }

Min(a, b) == IF a < b THEN a ELSE b

Call(ev, provider, index) == [ ev |-> ev, provider |-> provider, index |-> index ]

\* Variant: the providers are visited last to first.
RECURSIVE ProviderCallsReversed(_, _)
ProviderCallsReversed(ev, providers) ==
  IF providers = << >> THEN << >>
  ELSE ProviderCallsReversed(ev, Tail(providers)) \o << Call(ev, Head(providers), 0) >>

\* One call per provider, in list order.
RECURSIVE ProviderCalls(_, _)
ProviderCalls(ev, providers) ==
  IF providers = << >> THEN << >>
  ELSE << Call(ev, Head(providers), 0) >> \o ProviderCalls(ev, Tail(providers))

\* lines 22-25: the providers are the static s_instance objects of their
\* classes. Each records how often its instance-level hook ran and for
\* which DxvkInstance its device-level hook ran last.
FreshProviders ==
  [ p \in { RegisteredProviders[k] : k \in 1..Len(RegisteredProviders) } |->
      [ instanceInits |-> 0, deviceInitFor |-> 0 ] ]

\* provider->initInstanceExtensions(), for every provider of the list
RunInstanceHooks(state, providers) ==
  [ p \in DOMAIN state |->
      IF p \in { providers[k] : k \in 1..Len(providers) }
      THEN [ state[p] EXCEPT !.instanceInits = @ + 1 ] ELSE state[p] ]

\* provider->initDeviceExtensions(this), for every provider of the list
RunDeviceHooks(state, providers, this) ==
  [ p \in DOMAIN state |->
      IF p \in { providers[k] : k \in 1..Len(providers) }
      THEN [ state[p] EXCEPT !.deviceInitFor = this ] ELSE state[p] ]

-----------------------------------------------------------------------------
(* Constructor, lines 12-30: configuration and provider registration *)

Init ==
  /\ pc = "initInstanceExtensions"
  /\ m_extProviders = RegisteredProviders
  /\ envPerfEvents \in BOOLEAN
  /\ enableDebugUtils \in BOOLEAN
  /\ m_vkl = "none"
  /\ extensionsAvailable = {}
  /\ insExtensionList = << >>
  /\ extensionsEnabled = {}
  /\ m_extensions = DefaultInstanceExtensions
  /\ m_vki = "none"
  /\ fillStatus = "none"
  /\ physicalDevices = << >>
  /\ filterFlags = {}
  /\ m_adapters = << >>
  /\ calls = << >>
  /\ logWarn = << >>
  /\ error = NoError
  /\ lastQuery = [ op |-> "none", arg |-> << >>, result |-> << >> ]
  /\ instance = 1
  /\ earlierAdapters = << >>
  /\ providerState = FreshProviders

-----------------------------------------------------------------------------
(* Constructor, lines 32-33 *)

InitInstanceExtensions ==
  /\ pc = "initInstanceExtensions"
  /\ calls' = calls \o ProviderCalls("initInstanceExtensions", m_extProviders)
  /\ providerState' = RunInstanceHooks(providerState, m_extProviders)
  /\ pc' = "loadLibrary"
  /\ UNCHANGED << instance, earlierAdapters, m_extProviders,
                  envPerfEvents, enableDebugUtils, m_vkl,
                  extensionsAvailable, insExtensionList, extensionsEnabled,
                  m_extensions, m_vki, fillStatus,
                  physicalDevices, filterFlags, m_adapters, logWarn, error,
                  lastQuery >>

(* Constructor, lines 35-37 *)

\* Variant: the validity of the library is not looked at.
AfterLoadLibraryUnchecked(valid) == "createInstance"

AfterLoadLibrary(valid) ==
  IF ~valid THEN "failed" ELSE "createInstance"

LoadLibrary ==
  /\ pc = "loadLibrary"
  /\ \E valid \in BOOLEAN :
       /\ m_vkl' = IF valid THEN "valid" ELSE "invalid"
       /\ pc' = AfterLoadLibrary(valid)
       /\ error' = IF pc' = "failed"
                   THEN "Failed to load vulkan-1 library." ELSE NoError
  /\ calls' = Append(calls, Call("LibraryFn", "none", 0))
  /\ UNCHANGED << instance, earlierAdapters, providerState, m_extProviders,
                  envPerfEvents, enableDebugUtils,
                  extensionsAvailable, insExtensionList, extensionsEnabled,
                  m_extensions, m_vki, fillStatus,
                  physicalDevices, filterFlags, m_adapters, logWarn,
                  lastQuery >>

-----------------------------------------------------------------------------
(* createInstance, lines 91-147 *)

Range(s) == { s[i] : i \in 1..Len(s) }

\* Variant: both the environment variable and the option are needed.
DebugOptInBoth(env, option) == env /\ option

\* lines 101-102: the opt-in for VK_EXT_debug_utils
DebugOptIn(env, option) == env \/ option

\* lines 94-105: the requested slots
RequestedList(optIn) ==
  << khrGetSurfaceCapabilities2, khrSurface >>
    \o (IF optIn THEN << extDebugUtils >> ELSE << >>)

\* lines 101-105: the warning logged along with the request
OptInWarning(optIn) ==
  IF optIn THEN << DebugUtilsWarning >> ELSE << >>

\* DxvkNameSet::enableExtensions: every requested slot that is available is
\* enabled; the call reports failure when a required slot is unavailable.
EnableExtensions(available, list) ==
  [ ok      |-> \A s \in Range(list) : ExtMode(s) = "Required" => s \in available,
    enabled |-> Range(list) \cap available ]

\* Variant: the result of the negotiation is dropped.
NegotiationNeverThrows(ok) == FALSE

\* lines 110-114
NegotiationThrows(ok) == ~ok

\* Variant: the negotiated slots are never copied to the member.
RecordNothing(enabledSlots) == DefaultInstanceExtensions

\* line 116: m_extensions = insExtensions
RecordExtensions(enabledSlots) ==
  [ s \in InstanceExtensionSlots |-> s \in enabledSlots ]

\* Variant: the providers' own extensions are not merged.
MergeNoProviders(enabled, providers) == enabled

\* lines 119-120
RECURSIVE MergeProviders(_, _)
MergeProviders(enabled, providers) ==
  IF providers = << >> THEN enabled
  ELSE MergeProviders(enabled \cup GetInstanceExtensions(Head(providers)),
                      Tail(providers))

\* vkCreateInstance: the driver rejects a name it did not report, and may
\* fail for reasons of its own.
CreateStatuses(enabled, available) ==
  IF enabled \subseteq available
  THEN { "VK_SUCCESS", "VK_ERROR_INITIALIZATION_FAILED" }
  ELSE { "VK_ERROR_EXTENSION_NOT_PRESENT" }

\* lines 143-144
CreateThrows(status) == status # "VK_SUCCESS"

CreateInstance ==
  /\ pc = "createInstance"
  /\ \E available \in SUBSET ExtensionNames :
       LET optIn  == DebugOptIn(envPerfEvents, enableDebugUtils)
           list   == RequestedList(optIn)
           neg    == EnableExtensions(available, list)
           merged == MergeProviders(neg.enabled, m_extProviders)
           begun  == calls \o << Call("createInstance", "none", 0),
                                 Call("enableExtensions", "none", 0) >>
       IN  /\ extensionsAvailable' = available
           /\ insExtensionList' = list
           /\ logWarn' = logWarn \o OptInWarning(optIn)
           /\ IF NegotiationThrows(neg.ok)
              THEN /\ calls' = begun
                   /\ error' = "DxvkInstance: Failed to create instance"
                   /\ pc' = "failed"
                   /\ UNCHANGED << m_extensions, extensionsEnabled, m_vki >>
              ELSE \E status \in CreateStatuses(merged, available) :
                   /\ m_extensions' = RecordExtensions(neg.enabled)
                   /\ extensionsEnabled' = merged
                   /\ calls' = begun
                        \o ProviderCalls("getInstanceExtensions", m_extProviders)
                        \o << Call("vkCreateInstance", "none", 0) >>
                   /\ IF CreateThrows(status)
                      THEN /\ error' = "DxvkInstance::createInstance: Failed to create Vulkan 1.1 instance"
                           /\ pc' = "failed"
                           /\ UNCHANGED m_vki
                      ELSE /\ m_vki' = "instance"
                           /\ pc' = "queryAdapters"
                           /\ UNCHANGED error
  /\ UNCHANGED << instance, earlierAdapters, providerState, m_extProviders,
                  envPerfEvents, enableDebugUtils, m_vkl,
                  fillStatus, physicalDevices, filterFlags,
                  m_adapters, lastQuery >>

-----------------------------------------------------------------------------
(* queryAdapters, lines 150-202 *)

\* What the count-query call may return.
SizingResults ==
  { [ status |-> "VK_ERROR_INITIALIZATION_FAILED", count |-> 0 ] }
    \cup { [ status |-> "VK_SUCCESS", count |-> n ] : n \in 0..MaxDevices }

\* Status of the fill call, given the buffer size and the devices present.
FillStatus(capacity, present, driverError) ==
  IF driverError THEN "VK_ERROR_INITIALIZATION_FAILED"
  ELSE IF present > capacity THEN "VK_INCOMPLETE"
  ELSE "VK_SUCCESS"

\* What the fill call may return into a buffer of the given size: any
\* population that fits, VK_INCOMPLETE when more devices are present than the
\* buffer holds (the buffer's content is then never read), or a driver error.
FillResults(capacity) ==
  { [ status  |-> FillStatus(capacity, Len(present), FALSE),
      devices |-> present ] :
      present \in { p \in Populations : Len(p) <= capacity } }
    \cup ( IF capacity < MaxDevices
            THEN { [ status  |-> FillStatus(capacity, capacity + 1, FALSE),
                     devices |-> << >> ] }
            ELSE { } )
    \cup { [ status |-> FillStatus(capacity, 0, TRUE), devices |-> << >> ] }

\* lines 152-153 and 156-157
EnumerateThrows(status) == status # "VK_SUCCESS"

\* Variant: the flag is set by a CPU device instead of a non-CPU one.
ComputeFilterFlagsInverted(props) ==
  IF \E i \in 1..Len(props) : props[i].deviceType = "CPU"
  THEN { "SkipCpuDevices" } ELSE {}

\* lines 160-167
ComputeFilterFlags(props) ==
  IF \E i \in 1..Len(props) : props[i].deviceType # "CPU"
  THEN { "SkipCpuDevices" } ELSE {}

\* DxvkDeviceFilter::testAdapter
TestAdapter(flags, props) ==
  ~("SkipCpuDevices" \in flags /\ props.deviceType = "CPU")

\* Variant: the adapter object of a physical device is kept in a
\* process-wide cache and handed out again to the next instance.
NewAdapterCached(handle, props) ==
  LET hits == { k \in 1..Len(earlierAdapters) : earlierAdapters[k].handle = handle }
  IN  IF hits = {}
      THEN [ handle |-> handle, props |-> props, extensions |-> {} ]
      ELSE [ handle |-> handle, props |-> props,
             extensions |-> earlierAdapters[CHOOSE k \in hits : TRUE].extensions ]

\* line 174: new DxvkAdapter(m_vki, adapters[i]); the handle is the position
\* of the device in the raw enumeration.
NewAdapter(handle, props) ==
  [ handle |-> handle, props |-> props, extensions |-> {} ]

\* lines 172-175
RECURSIVE FilterAdapters(_, _, _)
FilterAdapters(flags, props, i) ==
  IF i > Len(props) THEN << >>
  ELSE (IF TestAdapter(flags, props[i])
        THEN << NewAdapter(i, props[i]) >> ELSE << >>)
       \o FilterAdapters(flags, props, i + 1)

\* Variant: the first two entries of the table are exchanged.
deviceTypesMisordered == << "INTEGRATED_GPU", "DISCRETE_GPU", "VIRTUAL_GPU" >>

\* lines 179-183
deviceTypes == << "DISCRETE_GPU", "INTEGRATED_GPU", "VIRTUAL_GPU" >>

\* lines 185-193: the loop bound is re-read on every iteration
RECURSIVE RankLoop(_, _, _, _, _)
RankLoop(aType, bType, aRank, bRank, i) ==
  IF i < Min(aRank, bRank)
  THEN RankLoop(aType, bType,
                IF aType = deviceTypes[i + 1] THEN i ELSE aRank,
                IF bType = deviceTypes[i + 1] THEN i ELSE bRank,
                i + 1)
  ELSE aRank < bRank

\* Variant: the operands are compared the wrong way round.
ComparatorSwapped(a, b) ==
  RankLoop(b.props.deviceType, a.props.deviceType,
           Len(deviceTypes), Len(deviceTypes), 0)

\* lines 178-194
Comparator(a, b) ==
  RankLoop(a.props.deviceType, b.props.deviceType,
           Len(deviceTypes), Len(deviceTypes), 0)

\* std::stable_sort: x goes in front of the first element it is less than,
\* so it stays behind every equivalent element that came before it.
RECURSIVE InsertSorted(_, _)
InsertSorted(x, sorted) ==
  IF sorted = << >> THEN << x >>
  ELSE IF Comparator(x, Head(sorted)) THEN << x >> \o sorted
  ELSE << Head(sorted) >> \o InsertSorted(x, Tail(sorted))

RECURSIVE StableSortFrom(_, _, _)
StableSortFrom(input, i, sorted) ==
  IF i > Len(input) THEN sorted
  ELSE StableSortFrom(input, i + 1, InsertSorted(input[i], sorted))

\* line 177
StableSort(input) == StableSortFrom(input, 1, << >>)

\* Variant: an empty result is returned silently.
EmptyWarningNever(result) == << >>

\* lines 196-199
EmptyWarning(result) ==
  IF Len(result) = 0 THEN << NoAdaptersWarning >> ELSE << >>

\* Variant: the device-level hooks are skipped.
AfterQueryAdaptersSkippingHooks == "applyDeviceExtensions"

\* constructor, lines 40-42: what follows queryAdapters
AfterQueryAdapters == "initDeviceExtensions"

QueryAdapters ==
  /\ pc = "queryAdapters"
  /\ \E sizing \in SizingResults :
       IF EnumerateThrows(sizing.status)
          THEN /\ error' = "DxvkInstance::enumAdapters: Failed to enumerate adapters"
               /\ pc' = "failed"
               /\ calls' = Append(calls, Call("vkEnumeratePhysicalDevices", "none", 0))
               /\ UNCHANGED << fillStatus, physicalDevices, filterFlags,
                               m_adapters, logWarn >>
          ELSE \E filled \in FillResults(sizing.count) :
               LET status  == filled.status
                   present == filled.devices
                   flags   == ComputeFilterFlags(present)
                   result == StableSort(FilterAdapters(flags, present, 1))
               IN  /\ fillStatus' = status
                   /\ calls' = calls \o << Call("vkEnumeratePhysicalDevices", "none", 0),
                                           Call("vkEnumeratePhysicalDevices", "none", 1) >>
                   /\ IF EnumerateThrows(status)
                      THEN /\ error' = "DxvkInstance::enumAdapters: Failed to enumerate adapters"
                           /\ pc' = "failed"
                           /\ UNCHANGED << physicalDevices, filterFlags,
                                           m_adapters, logWarn >>
                      ELSE /\ physicalDevices' = present
                           /\ filterFlags' = flags
                           /\ m_adapters' = result
                           /\ logWarn' = logWarn \o EmptyWarning(result)
                           /\ pc' = AfterQueryAdapters
                           /\ UNCHANGED error
  /\ UNCHANGED << instance, earlierAdapters, providerState, m_extProviders,
                  envPerfEvents, enableDebugUtils, m_vkl,
                  extensionsAvailable, insExtensionList, extensionsEnabled,
                  m_extensions, m_vki, lastQuery >>

-----------------------------------------------------------------------------
(* Constructor, lines 42-50 *)

InitDeviceExtensions ==
  /\ pc = "initDeviceExtensions"
  /\ calls' = calls \o ProviderCalls("initDeviceExtensions", m_extProviders)
  /\ providerState' = RunDeviceHooks(providerState, m_extProviders, instance)
  /\ pc' = "applyDeviceExtensions"
  /\ UNCHANGED << instance, earlierAdapters, m_extProviders,
                  envPerfEvents, enableDebugUtils, m_vkl,
                  extensionsAvailable, insExtensionList, extensionsEnabled,
                  m_extensions, m_vki, fillStatus,
                  physicalDevices, filterFlags, m_adapters, logWarn, error,
                  lastQuery >>

\* Variant: the inner loop stops after the first provider.
EnableFirstProvider(extensions, providers, i) ==
  IF providers = << >> THEN extensions
  ELSE extensions \cup GetDeviceExtensions(Head(providers), i)

\* lines 46-49, for adapter index i (counted from 0)
RECURSIVE EnableProviders(_, _, _)
EnableProviders(extensions, providers, i) ==
  IF providers = << >> THEN extensions
  ELSE EnableProviders(extensions \cup GetDeviceExtensions(Head(providers), i),
                       Tail(providers), i)

RECURSIVE DeviceExtensionCalls(_, _, _)
DeviceExtensionCalls(providers, i, n) ==
  IF i >= n THEN << >>
  ELSE [ k \in 1..Len(providers) |->
           Call("getDeviceExtensions", providers[k], i) ]
       \o DeviceExtensionCalls(providers, i + 1, n)

ApplyDeviceExtensions ==
  /\ pc = "applyDeviceExtensions"
  /\ m_adapters' =
       [ k \in 1..Len(m_adapters) |->
           [ m_adapters[k] EXCEPT
               !.extensions = EnableProviders(@, m_extProviders, k - 1) ] ]
  /\ calls' = calls \o DeviceExtensionCalls(m_extProviders, 0, Len(m_adapters))
  /\ pc' = "done"
  /\ UNCHANGED << instance, earlierAdapters, providerState, m_extProviders,
                  envPerfEvents, enableDebugUtils, m_vkl,
                  extensionsAvailable, insExtensionList, extensionsEnabled,
                  m_extensions, m_vki, fillStatus,
                  physicalDevices, filterFlags, logWarn, error, lastQuery >>

-----------------------------------------------------------------------------
(* Adapter queries, lines 59-88 *)

\* Arguments the callers pass.
LuidArgs == { 1, 3 }
DeviceIdArgs == { << 4318, 1 >>, << 5, 0 >> }

\* Variant: an index past the end is clamped to the last adapter.
enumAdaptersClamped(adapters, index) ==
  IF index < Len(adapters) THEN << adapters[index + 1] >>
  ELSE IF Len(adapters) > 0 THEN << adapters[Len(adapters)] >>
  ELSE << >>

\* lines 59-63; a result is << >> for nullptr, << adapter >> otherwise
enumAdapters(adapters, index) ==
  IF index < Len(adapters) THEN << adapters[index + 1] >> ELSE << >>

\* Variant: deviceLUIDValid is not looked at.
RECURSIVE findAdapterByLuidUnchecked(_, _)
findAdapterByLuidUnchecked(adapters, luid) ==
  IF adapters = << >> THEN << >>
  ELSE IF Head(adapters).props.deviceLUID = luid
  THEN << Head(adapters) >>
  ELSE findAdapterByLuidUnchecked(Tail(adapters), luid)

\* lines 66-75
RECURSIVE findAdapterByLuid(_, _)
findAdapterByLuid(adapters, luid) ==
  IF adapters = << >> THEN << >>
  ELSE IF Head(adapters).props.deviceLUIDValid
          /\ Head(adapters).props.deviceLUID = luid
  THEN << Head(adapters) >>
  ELSE findAdapterByLuid(Tail(adapters), luid)

\* Variant: the vendor id is not compared.
RECURSIVE findAdapterByDeviceOnly(_, _, _)
findAdapterByDeviceOnly(adapters, vendorId, deviceId) ==
  IF adapters = << >> THEN << >>
  ELSE IF Head(adapters).props.deviceID = deviceId
  THEN << Head(adapters) >>
  ELSE findAdapterByDeviceOnly(Tail(adapters), vendorId, deviceId)

\* Variant: the ids of the snapshot are cut to 16 bits before the comparison.
RECURSIVE findAdapterByTruncatedId(_, _, _)
findAdapterByTruncatedId(adapters, vendorId, deviceId) ==
  IF adapters = << >> THEN << >>
  ELSE IF Head(adapters).props.vendorID % 65536 = vendorId
          /\ Head(adapters).props.deviceID % 65536 = deviceId
  THEN << Head(adapters) >>
  ELSE findAdapterByTruncatedId(Tail(adapters), vendorId, deviceId)

\* lines 78-88
RECURSIVE findAdapterByDeviceId(_, _, _)
findAdapterByDeviceId(adapters, vendorId, deviceId) ==
  IF adapters = << >> THEN << >>
  ELSE IF Head(adapters).props.vendorID = vendorId
          /\ Head(adapters).props.deviceID = deviceId
  THEN << Head(adapters) >>
  ELSE findAdapterByDeviceId(Tail(adapters), vendorId, deviceId)

\* Variant: a lookup moves the adapter at the front to the back.
UnqueriedReordering ==
  /\ m_adapters' = IF m_adapters = << >> THEN << >>
                   ELSE Tail(m_adapters) \o << Head(m_adapters) >>
  /\ UNCHANGED << pc, instance, earlierAdapters, providerState, m_extProviders,
                  envPerfEvents, enableDebugUtils, m_vkl,
                  extensionsAvailable, insExtensionList, extensionsEnabled,
                  m_extensions, m_vki, fillStatus, physicalDevices,
                  filterFlags, calls, logWarn, error >>

\* lines 59, 66, 78: the queries are const member functions
Unqueried ==
  UNCHANGED << pc, instance, earlierAdapters, providerState, m_extProviders,
                  envPerfEvents, enableDebugUtils, m_vkl,
               extensionsAvailable, insExtensionList, extensionsEnabled,
               m_extensions, m_vki, fillStatus, physicalDevices,
               filterFlags, m_adapters, calls, logWarn, error >>

EnumAdapters ==
  /\ pc = "done"
  /\ \E index \in 0..MaxDevices :
       lastQuery' = [ op |-> "enumAdapters", arg |-> << index >>,
                      result |-> enumAdapters(m_adapters, index) ]
  /\ Unqueried

FindAdapterByLuid ==
  /\ pc = "done"
  /\ \E luid \in LuidArgs :
       lastQuery' = [ op |-> "findAdapterByLuid", arg |-> << luid >>,
                      result |-> findAdapterByLuid(m_adapters, luid) ]
  /\ Unqueried

FindAdapterByDeviceId ==
  /\ pc = "done"
  /\ \E id \in DeviceIdArgs :
       lastQuery' = [ op |-> "findAdapterByDeviceId", arg |-> id,
                      result |-> findAdapterByDeviceId(m_adapters, id[1], id[2]) ]
  /\ Unqueried

-----------------------------------------------------------------------------

\* The steps of the constructor.
Construct ==
  \/ InitInstanceExtensions
  \/ LoadLibrary
  \/ CreateInstance
  \/ QueryAdapters
  \/ InitDeviceExtensions
  \/ ApplyDeviceExtensions

Next ==
  \/ Construct
  \/ EnumAdapters
  \/ FindAdapterByLuid
  \/ FindAdapterByDeviceId

\* lines 12-30, a second time: another DxvkInstance is constructed in the
\* same process while the first one stays alive. Its members start empty;
\* its provider list holds the same singletons. The second run is followed
\* for first instances of at most MaxEarlierDevices devices in processes
\* without the debug-utils opt-in, which touches the instance extension
\* list and the log only.
SecondInstance ==
  /\ pc = "done"
  /\ instance = 1
  /\ Len(physicalDevices) <= MaxEarlierDevices
  /\ ~DebugOptIn(envPerfEvents, enableDebugUtils)
  /\ instance' = 2
  /\ earlierAdapters' = m_adapters
  /\ pc' = "initInstanceExtensions"
  /\ m_extProviders' = RegisteredProviders
  /\ m_vkl' = "none"
  /\ extensionsAvailable' = {}
  /\ insExtensionList' = << >>
  /\ extensionsEnabled' = {}
  /\ m_extensions' = DefaultInstanceExtensions
  /\ m_vki' = "none"
  /\ fillStatus' = "none"
  /\ physicalDevices' = << >>
  /\ filterFlags' = {}
  /\ m_adapters' = << >>
  /\ calls' = << >>
  /\ logWarn' = << >>
  /\ UNCHANGED << providerState, envPerfEvents, enableDebugUtils, error,
                  lastQuery >>

\* Construction followed by any sequence of adapter queries.
Spec == Init /\ [][Next]_vars

\* One bootstrap run: the constructor alone.
Bootstrap == Init /\ [][Construct]_vars

\* Two instances bootstrapped one after the other in one process.
TwoInstances == Init /\ [][Construct \/ SecondInstance]_vars

-----------------------------------------------------------------------------
(* Properties *)

Positions(ev) == { i \in 1..Len(calls) : calls[i].ev = ev }

Called(ev) == Positions(ev) # {}

\* Every call of `later` has a call of `earlier` in front of it.
Precedes(earlier, later) ==
  \A i \in Positions(later) : \E j \in Positions(earlier) : j < i

\* The calls of `ev`, in the order they were made.
CallsOf(ev) == SelectSeq(calls, LAMBDA c : c.ev = ev)

\* One call of `ev` per registered provider, in registration order.
InRegistrationOrder(ev) ==
  CallsOf(ev) = [ k \in 1..Len(m_extProviders) |-> Call(ev, m_extProviders[k], 0) ]

AdaptersBuilt == pc \in { "initDeviceExtensions", "applyDeviceExtensions", "done" }

\* C1: in every bootstrap run the steps happen in the order library load,
\* createInstance, queryAdapters, per-adapter application of the providers'
\* device extensions, and a step starts only once the one before it has
\* completed successfully.
C1_BootstrapOrder ==
  /\ Called("createInstance") =>
       /\ Precedes("LibraryFn", "createInstance")
       /\ m_vkl = "valid"
  /\ Called("vkEnumeratePhysicalDevices") =>
       /\ Precedes("vkCreateInstance", "vkEnumeratePhysicalDevices")
       /\ Precedes("createInstance", "vkCreateInstance")
       /\ m_vki = "instance"
  /\ Called("getDeviceExtensions") =>
       /\ Precedes("vkEnumeratePhysicalDevices", "getDeviceExtensions")
       /\ fillStatus = "VK_SUCCESS"
  /\ pc \in { "applyDeviceExtensions", "done" } =>
       /\ m_vkl = "valid" /\ m_vki = "instance" /\ fillStatus = "VK_SUCCESS"
  /\ \A ev \in { "LibraryFn", "createInstance", "vkCreateInstance" } :
       Cardinality(Positions(ev)) <= 1

C1_Witness ==
  /\ pc = "done"
  /\ Len(m_adapters) > 1
  /\ Called("getDeviceExtensions")

MandatoryAvailable ==
  { khrGetSurfaceCapabilities2, khrSurface } \subseteq extensionsAvailable

\* C2: construction is all-or-nothing: when the library load, the mandatory
\* negotiation, the connection creation or the enumeration fails, the
\* constructor ends with an error there, no later step runs, and no query
\* is ever answered by such an instance.
C2_AllOrNothing ==
  /\ m_vkl = "invalid" =>
       /\ pc = "failed" /\ error # NoError
       /\ ~Called("createInstance") /\ ~Called("vkCreateInstance")
       /\ ~Called("vkEnumeratePhysicalDevices")
  /\ (Called("enableExtensions") /\ ~MandatoryAvailable) =>
       /\ pc = "failed" /\ error # NoError
       /\ ~Called("vkCreateInstance") /\ m_vki = "none"
       /\ ~Called("vkEnumeratePhysicalDevices")
  /\ (Called("vkCreateInstance") /\ m_vki = "none") =>
       /\ pc = "failed" /\ error # NoError
       /\ ~Called("vkEnumeratePhysicalDevices")
  /\ (Called("vkEnumeratePhysicalDevices") /\ fillStatus # "VK_SUCCESS") =>
       /\ pc = "failed" /\ error # NoError
       /\ m_adapters = << >>
       /\ ~Called("initDeviceExtensions") /\ ~Called("getDeviceExtensions")
  /\ (pc = "failed") <=> (error # NoError)
  /\ pc = "failed" => lastQuery.op = "none"
  /\ lastQuery.op # "none" => (pc = "done" /\ error = NoError)

C2_Witness ==
  /\ pc = "failed"
  /\ Called("enableExtensions")
  /\ ~MandatoryAvailable
  /\ ~Called("vkCreateInstance")

\* C3 as stated: every initInstanceExtensions hook runs after the library
\* has been loaded successfully, and none has run when the load failed.
C3_HooksAfterLibrary ==
  /\ Called("initInstanceExtensions") =>
       /\ Precedes("LibraryFn", "initInstanceExtensions")
       /\ m_vkl = "valid"
  /\ m_vkl = "invalid" => ~Called("initInstanceExtensions")

\* C3, amended: the initInstanceExtensions hooks are the first calls of the
\* bootstrap, one per provider in registration order, all made before the
\* library is loaded; when the load fails every hook has already run.
C3_HooksBeforeLibrary ==
  /\ ~Called("initInstanceExtensions") => calls = << >>
  /\ Called("initInstanceExtensions") =>
       /\ InRegistrationOrder("initInstanceExtensions")
       /\ Positions("initInstanceExtensions") = 1..Len(m_extProviders)
  /\ m_vkl # "none" =>
       /\ Precedes("initInstanceExtensions", "LibraryFn")
       /\ InRegistrationOrder("initInstanceExtensions")

C3_Witness ==
  /\ m_vkl = "invalid"
  /\ Len(CallsOf("initInstanceExtensions")) = Len(m_extProviders)

SomeNonCpu ==
  \E i \in 1..Len(physicalDevices) : physicalDevices[i].deviceType # "CPU"

SomeCpu ==
  \E i \in 1..Len(physicalDevices) : physicalDevices[i].deviceType = "CPU"

\* C4: the skip-CPU flag is set iff some enumerated device is not of CPU
\* type; with a non-CPU device present no CPU device is in the adapter list,
\* and with CPU devices only every one of them is.
C4_CpuFilter ==
  AdaptersBuilt =>
    /\ ("SkipCpuDevices" \in filterFlags) <=> SomeNonCpu
    /\ SomeNonCpu =>
         \A k \in 1..Len(m_adapters) : m_adapters[k].props.deviceType # "CPU"
    /\ ~SomeNonCpu =>
         /\ Len(m_adapters) = Len(physicalDevices)
         /\ \A i \in 1..Len(physicalDevices) :
              \E k \in 1..Len(m_adapters) : m_adapters[k].handle = i

C4_Witness ==
  /\ AdaptersBuilt
  /\ SomeNonCpu /\ SomeCpu
  /\ Len(m_adapters) > 0

\* Priority class of a device type: discrete, integrated, virtual, the rest.
ClassRank(type) ==
  CASE type = "DISCRETE_GPU"   -> 0
    [] type = "INTEGRATED_GPU" -> 1
    [] type = "VIRTUAL_GPU"    -> 2
    [] OTHER                   -> 3

PassedFilter ==
  { i \in 1..Len(physicalDevices) :
      ~(SomeNonCpu /\ physicalDevices[i].deviceType = "CPU") }

\* C5: the adapter list is a permutation of the devices that passed the
\* filter, ordered by priority class, and two adapters of the same class
\* keep their raw enumeration order.
C5_StableRanking ==
  AdaptersBuilt =>
    /\ { m_adapters[k].handle : k \in 1..Len(m_adapters) } = PassedFilter
    /\ Len(m_adapters) = Cardinality(PassedFilter)
    /\ \A k \in 1..Len(m_adapters) :
         m_adapters[k].props = physicalDevices[m_adapters[k].handle]
    /\ \A k, l \in 1..Len(m_adapters) :
         k < l =>
           LET rk == ClassRank(m_adapters[k].props.deviceType)
               rl == ClassRank(m_adapters[l].props.deviceType)
           IN  /\ rk <= rl
               /\ rk = rl => m_adapters[k].handle < m_adapters[l].handle

\* The example of the specification: [integrated, discrete, virtual,
\* discrete] ranks to [discrete #2, discrete #4, integrated #1, virtual #3].
C5_Witness ==
  /\ AdaptersBuilt
  /\ [ i \in 1..Len(physicalDevices) |-> physicalDevices[i].deviceType ]
       = << "INTEGRATED_GPU", "DISCRETE_GPU", "VIRTUAL_GPU", "DISCRETE_GPU" >>
  /\ [ k \in 1..Len(m_adapters) |-> m_adapters[k].handle ] = << 2, 4, 1, 3 >>

NegotiationSucceeded == Called("vkCreateInstance")

\* C6: after a successful negotiation a requested slot is enabled in
\* m_extensions iff its name is in the set the driver reported available.
C6_EnabledIffAvailable ==
  NegotiationSucceeded =>
    \A s \in Range(insExtensionList) :
      m_extensions[s] <=> (s \in extensionsAvailable)

C6_Witness ==
  /\ NegotiationSucceeded
  /\ extDebugUtils \in Range(insExtensionList)
  /\ extDebugUtils \notin extensionsAvailable
  /\ m_extensions[khrSurface]

\* C7: VK_EXT_debug_utils is enabled after negotiation iff the opt-in is
\* active (environment variable or option) and the driver reports it
\* available; negotiation never fails because it is unavailable.
C7_DebugUtilsOptional ==
  /\ NegotiationSucceeded =>
       (m_extensions[extDebugUtils]
          <=> ((envPerfEvents \/ enableDebugUtils)
                 /\ extDebugUtils \in extensionsAvailable))
  /\ (Called("enableExtensions") /\ MandatoryAvailable) => NegotiationSucceeded
  /\ ~NegotiationSucceeded => ~m_extensions[extDebugUtils]

C7_Witness ==
  /\ m_vki = "instance"
  /\ envPerfEvents /\ ~enableDebugUtils
  /\ extDebugUtils \in extensionsAvailable
  /\ m_extensions[extDebugUtils]

\* C8: the 'may affect performance' warning is emitted only when
\* VK_EXT_debug_utils was requested and available, that is exactly when the
\* extension is enabled.
C8_WarningOnlyWhenEnabled ==
  Called("enableExtensions") =>
    ((DebugUtilsWarning \in Range(logWarn))
       <=> ((envPerfEvents \/ enableDebugUtils)
              /\ extDebugUtils \in extensionsAvailable))

\* C9: a count/buffer mismatch between the count-query call and the fill
\* call (the fill call reporting VK_INCOMPLETE) never aborts construction.
C9_MismatchTolerated ==
  fillStatus = "VK_INCOMPLETE" => (pc # "failed" /\ error = NoError)

\* C10 as stated: the initDeviceExtensions hooks run, in registration
\* order, after the connection has been created and before the adapter
\* collection is built.
C10_HooksBeforeAdapters ==
  /\ Precedes("vkCreateInstance", "initDeviceExtensions")
  /\ \A i \in Positions("initDeviceExtensions") :
       \A j \in Positions("vkEnumeratePhysicalDevices") : i < j
  /\ pc = "done" => InRegistrationOrder("initDeviceExtensions")

\* C10, amended: the initDeviceExtensions hooks run, one per provider in
\* registration order, after the connection has been created and after the
\* adapter collection has been built, and before any provider's device
\* extensions are applied to an adapter.
C10_HooksAfterAdapters ==
  /\ Called("initDeviceExtensions") =>
       /\ InRegistrationOrder("initDeviceExtensions")
       /\ m_vki = "instance" /\ fillStatus = "VK_SUCCESS"
       /\ Precedes("vkCreateInstance", "initDeviceExtensions")
       /\ \A i \in Positions("initDeviceExtensions") :
            /\ \A j \in Positions("vkEnumeratePhysicalDevices") : j < i
            /\ \A j \in Positions("getDeviceExtensions") : i < j
  /\ pc \in { "applyDeviceExtensions", "done" } =>
       InRegistrationOrder("initDeviceExtensions")
  /\ pc \notin { "applyDeviceExtensions", "done" } =>
       ~Called("initDeviceExtensions")

C10_Witness ==
  /\ pc = "done"
  /\ Len(m_adapters) > 0
  /\ Len(CallsOf("initDeviceExtensions")) = Len(m_extProviders)
  /\ Called("getDeviceExtensions")

\* What the registered providers ask for on their own.
ProviderInstanceExtensions ==
  UNION { GetInstanceExtensions(m_extProviders[k]) : k \in 1..Len(m_extProviders) }

\* C11 as stated: every name in the enabled set handed to vkCreateInstance,
\* the providers' contributions included, was reported available.
C11_EnabledAllAvailable ==
  Called("vkCreateInstance") => extensionsEnabled \subseteq extensionsAvailable

\* C11, amended: every name that the negotiation put in the enabled set was
\* reported available; the names merged from the providers'
\* getInstanceExtensions are handed to vkCreateInstance without being
\* compared with the available set.
C11_NegotiatedAvailable ==
  Called("vkCreateInstance") =>
    /\ extensionsEnabled \ ProviderInstanceExtensions \subseteq extensionsAvailable
    /\ { s \in InstanceExtensionSlots : m_extensions[s] } \subseteq extensionsAvailable
    /\ extensionsEnabled =
         { s \in InstanceExtensionSlots : m_extensions[s] }
           \cup ProviderInstanceExtensions

C11_Witness ==
  /\ Called("vkCreateInstance")
  /\ platformSurface \in extensionsEnabled
  /\ platformSurface \notin extensionsAvailable
  /\ khrSurface \in extensionsEnabled

NoDevices == AdaptersBuilt /\ Len(physicalDevices) = 0

\* C15 as stated: a bootstrap in which the driver reports no physical
\* device completes without error, yields an empty adapter collection and
\* emits exactly one warning in the whole bootstrap.
C15_ExactlyOneWarning ==
  NoDevices =>
    /\ error = NoError
    /\ m_adapters = << >>
    /\ Len(logWarn) = 1

\* C15, amended: such a bootstrap completes without error, yields an empty
\* adapter collection and emits the 'no adapters found' warning exactly
\* once; that is its only warning when the debug opt-in is inactive.
C15_OneNoAdaptersWarning ==
  /\ NoDevices =>
       /\ error = NoError /\ pc # "failed"
       /\ m_adapters = << >>
       /\ Len(SelectSeq(logWarn, LAMBDA w : w = NoAdaptersWarning)) = 1
       /\ (~envPerfEvents /\ ~enableDebugUtils) => logWarn = << NoAdaptersWarning >>
  /\ (AdaptersBuilt /\ Len(physicalDevices) > 0) =>
       NoAdaptersWarning \notin Range(logWarn)

C15_Witness ==
  /\ pc = "done"
  /\ Len(physicalDevices) = 0
  /\ envPerfEvents
  /\ Len(logWarn) = 2

TypeOf(i) == physicalDevices[i].deviceType

\* The comparator applied to the devices enumerated at positions i and j.
Less(i, j) ==
  Comparator(NewAdapter(i, physicalDevices[i]), NewAdapter(j, physicalDevices[j]))

\* C18: the sort comparator agrees with comparing table-lookup ranks: it
\* is true iff rank(a) < rank(b), with rank 3 for a type that is not in
\* the table; so it is irreflexive, asymmetric and transitive.
C18_ComparatorIsRankOrder ==
  AdaptersBuilt =>
    \A i, j \in 1..Len(physicalDevices) :
      /\ Less(i, j) <=> (ClassRank(TypeOf(i)) < ClassRank(TypeOf(j)))
      /\ ~Less(i, i)
      /\ Less(i, j) => ~Less(j, i)
      /\ Less(i, j) => \A k \in 1..Len(physicalDevices) :
                          Less(j, k) => Less(i, k)

C18_Witness ==
  /\ AdaptersBuilt
  /\ { TypeOf(i) : i \in 1..Len(physicalDevices) }
       = { "INTEGRATED_GPU", "DISCRETE_GPU", "VIRTUAL_GPU", "OTHER" }
  /\ TypeOf(1) = "OTHER" /\ TypeOf(2) = "VIRTUAL_GPU"
  /\ Less(2, 1) /\ ~Less(1, 2)

\* The getDeviceExtensions calls expected for n adapters: adapter by
\* adapter in ranked order, and for each the providers in registration order.
ExpectedDeviceExtensionCalls(n) ==
  [ q \in 1..(n * Len(m_extProviders)) |->
      Call("getDeviceExtensions",
           m_extProviders[((q - 1) % Len(m_extProviders)) + 1],
           (q - 1) \div Len(m_extProviders)) ]

\* C19: when bootstrap completes, every provider's getDeviceExtensions(i)
\* has been merged exactly once into the adapter at ranked position i,
\* providers in registration order, after every initDeviceExtensions hook.
C19_DeviceExtensionsApplied ==
  /\ pc = "done" =>
       /\ CallsOf("getDeviceExtensions")
            = ExpectedDeviceExtensionCalls(Len(m_adapters))
       /\ \A k \in 1..Len(m_adapters) :
            m_adapters[k].extensions =
              UNION { GetDeviceExtensions(m_extProviders[q], k - 1) :
                        q \in 1..Len(m_extProviders) }
       /\ InRegistrationOrder("initDeviceExtensions")
       /\ \A i \in Positions("getDeviceExtensions") :
            \A j \in Positions("initDeviceExtensions") : j < i
  /\ pc # "done" =>
       /\ ~Called("getDeviceExtensions")
       /\ \A k \in 1..Len(m_adapters) : m_adapters[k].extensions = {}

\* The adapter at rank 0 was enumerated second, so rank and raw index differ.
C19_Witness ==
  /\ pc = "done"
  /\ Len(m_adapters) > 1
  /\ m_adapters[1].handle = 2
  /\ [ provider |-> "DxvkXrProvider", adapterIndex |-> 0 ] \in m_adapters[1].extensions

\* Positions of the adapters with a valid LUID equal to luid.
LuidMatches(luid) ==
  { k \in 1..Len(m_adapters) :
      /\ m_adapters[k].props.deviceLUIDValid
      /\ m_adapters[k].props.deviceLUID = luid }

\* Positions of the adapters whose vendor and device id both equal the pair.
DeviceIdMatches(vendorId, deviceId) ==
  { k \in 1..Len(m_adapters) :
      /\ m_adapters[k].props.vendorID = vendorId
      /\ m_adapters[k].props.deviceID = deviceId }

Lowest(S) == CHOOSE k \in S : \A l \in S : k <= l

\* C12: findAdapterByLuid returns the first adapter in ranked order whose
\* snapshot has a valid LUID equal to the argument, and null when there is
\* none; an adapter whose LUID matches but is not valid is never returned.
C12_FindByLuid ==
  lastQuery.op = "findAdapterByLuid" =>
    LET matches == LuidMatches(lastQuery.arg[1])
    IN  /\ matches = {} => lastQuery.result = << >>
        /\ matches # {} => lastQuery.result = << m_adapters[Lowest(matches)] >>
        /\ lastQuery.result # << >> => lastQuery.result[1].props.deviceLUIDValid

\* Null is returned although an adapter carries the same LUID bytes, invalid.
C12_Witness ==
  /\ lastQuery.op = "findAdapterByLuid"
  /\ lastQuery.result = << >>
  /\ \E k \in 1..Len(m_adapters) :
       /\ m_adapters[k].props.deviceLUID = lastQuery.arg[1]
       /\ ~m_adapters[k].props.deviceLUIDValid

\* C13: findAdapterByDeviceId returns the adapter of lowest rank among
\* those matching both the vendor id and the device id, and null when no
\* adapter matches both.
C13_FindByDeviceId ==
  lastQuery.op = "findAdapterByDeviceId" =>
    LET matches == DeviceIdMatches(lastQuery.arg[1], lastQuery.arg[2])
    IN  /\ matches = {} => lastQuery.result = << >>
        /\ matches # {} => lastQuery.result = << m_adapters[Lowest(matches)] >>

\* Two adapters share the pair and the one of lower rank is returned.
C13_Witness ==
  /\ lastQuery.op = "findAdapterByDeviceId"
  /\ Cardinality(DeviceIdMatches(lastQuery.arg[1], lastQuery.arg[2])) > 1
  /\ Len(m_adapters) > 2
  /\ lastQuery.result = << m_adapters[2] >>

\* C17: enumAdapters(index) returns the adapter at that rank position for
\* an index below the number of adapters and null for any other index.
C17_EnumAdaptersBounds ==
  lastQuery.op = "enumAdapters" =>
    LET index == lastQuery.arg[1]
    IN  /\ index < Len(m_adapters) => lastQuery.result = << m_adapters[index + 1] >>
        /\ index >= Len(m_adapters) => lastQuery.result = << >>

C17_Witness ==
  /\ lastQuery.op = "enumAdapters"
  /\ Len(m_adapters) > 0
  /\ lastQuery.arg[1] = Len(m_adapters)
  /\ lastQuery.result = << >>

\* C20: an adapter returned by findAdapterByDeviceId has vendorID and
\* deviceID at most 0xFFFF and equal to the arguments; an adapter with an
\* id above 0xFFFF is never returned.
C20_NoTruncation ==
  (lastQuery.op = "findAdapterByDeviceId" /\ lastQuery.result # << >>) =>
    LET props == lastQuery.result[1].props
    IN  /\ props.vendorID = lastQuery.arg[1] /\ props.deviceID = lastQuery.arg[2]
        /\ props.vendorID <= 65535 /\ props.deviceID <= 65535

\* Vendor id 0x10005 is in the collection and is not found as 0x0005.
C20_Witness ==
  /\ lastQuery.op = "findAdapterByDeviceId"
  /\ lastQuery.arg = << 5, 0 >>
  /\ \E k \in 1..Len(m_adapters) :
       /\ m_adapters[k].props.vendorID = 65541
       /\ m_adapters[k].props.deviceID = 0
  /\ lastQuery.result = << >>

\* C14: once bootstrap has completed no query changes the adapter
\* collection, a snapshot or an enabled extension set, in whatever order
\* the queries are made, and asking the same question again gives the
\* same answer.
C14_QueriesReadOnly ==
  [][ pc = "done" =>
        /\ pc' = "done"
        /\ m_adapters' = m_adapters
        /\ physicalDevices' = physicalDevices
        /\ m_extensions' = m_extensions
        /\ extensionsEnabled' = extensionsEnabled
        /\ (lastQuery'.op = lastQuery.op /\ lastQuery'.arg = lastQuery.arg)
             => lastQuery'.result = lastQuery.result ]_vars

C14_Witness ==
  /\ pc = "done"
  /\ Len(m_adapters) > 1
  /\ lastQuery.op = "findAdapterByLuid"
  /\ lastQuery.result = << m_adapters[1] >>
  /\ m_adapters[1].extensions # {}

\* What the providers contribute for the adapter at rank position k.
OwnDeviceExtensions(k) ==
  UNION { GetDeviceExtensions(RegisteredProviders[q], k - 1) :
            q \in 1..Len(RegisteredProviders) }

\* C16 as stated: no step of the second bootstrap changes anything of the
\* first instance's adapters, and the two bootstraps share no mutable
\* state, the state reached through the providers included.
C16_NothingShared ==
  [][ instance = 2 =>
        /\ earlierAdapters' = earlierAdapters
        /\ providerState' = providerState ]_vars

\* C16, amended: the two instances have independent adapter collections:
\* no step of the second bootstrap changes the first instance's adapters or
\* their enabled extension sets, and nothing of them enters the adapters of
\* the second; the providers are singletons that both bootstraps run their
\* hooks on.
C16_AdaptersIndependent ==
  [][ instance' = 2 =>
        /\ instance = 2 => earlierAdapters' = earlierAdapters
        /\ \A k \in 1..Len(m_adapters') :
             m_adapters'[k].extensions \subseteq OwnDeviceExtensions(k)
        /\ pc' = "done" =>
             \A p \in DOMAIN providerState' :
               /\ providerState'[p].instanceInits = 2
               /\ providerState'[p].deviceInitFor = 2 ]_vars

\* The device of the first instance's only adapter is, in the second
\* instance, an adapter of another rank.
C16_Witness ==
  /\ instance = 2
  /\ pc = "done"
  /\ Len(earlierAdapters) = 1
  /\ earlierAdapters[1].extensions = OwnDeviceExtensions(1)
  /\ Len(m_adapters) > 1
  /\ m_adapters[2].handle = 1
  /\ m_adapters[2].extensions = OwnDeviceExtensions(2)

====
